---------------------------- MODULE Spec2Model ----------------------------
(***************************************************************************)
(* SinGlu: a Streamlit script (src/app.py) that flags gluten-containing    *)
(* keywords in an ingredient text, builds a prompt, posts it to a hosted   *)
(* chat-completion endpoint and shows the answer and affiliate links.      *)
(*                                                                         *)
(* Python str values are TLA+ strings (TLC evaluates Len, \o, SubSeq, Head *)
(* and Tail on them).  None is the record NoneLink / a "null" JSON value.  *)
(* Glyphs outside ASCII in the script's literals are written as their      *)
(* code-point escapes ("\\u2192" for the arrow of line 195).               *)
(***************************************************************************)
EXTENDS Integers, Sequences, FiniteSets, TLC

VARIABLES
    HF_API_KEY,       \* os.environ: the value of HF_API_KEY (EnvUnset when absent)
    HF_MODEL_REPO,    \* os.environ: the value of HF_MODEL_REPO (EnvUnset when absent)
    affiliate_file,   \* affiliate_links.json on disk (absent or its parsed content)
    secrets,          \* st.secrets
    pc,               \* where the last run of the script ended
    ingredients,      \* widget state: st.text_area
    avoid,            \* widget state: st.text_input
    servings,         \* widget state: slider
    recipes_count,    \* widget state: slider
    region,           \* widget state: selectbox
    endpoint,         \* what the endpoint answers to the successive attempts of this run
    requests_sent,    \* the HTTP requests the last run issued, in order
    flags,            \* possible_gluten_flags_with_links(...) of the last run
    prompt,           \* build_prompt(...) of the last run
    call,             \* how hf_generate_chat ended in the last run
    recs,             \* get_affiliate_recommendations(...) of the last run
    shown,            \* the elements the last run put on the page, in order
    product_name,     \* argument of a direct get_affiliate_link call
    link              \* its result

vars == <<HF_API_KEY, HF_MODEL_REPO, affiliate_file, secrets, pc, ingredients, avoid,
          servings, recipes_count, region, endpoint, requests_sent, flags, prompt,
          call, recs, shown, product_name, link>>

-----------------------------------------------------------------------------
(* Python str operations *)

Min(a, b) == IF a < b THEN a ELSE b

\* the ASCII letters, upper case to lower case and back
ToLower ==
    "A" :> "a" @@ "B" :> "b" @@ "C" :> "c" @@ "D" :> "d" @@ "E" :> "e" @@ "F" :> "f" @@
    "G" :> "g" @@ "H" :> "h" @@ "I" :> "i" @@ "J" :> "j" @@ "K" :> "k" @@ "L" :> "l" @@
    "M" :> "m" @@ "N" :> "n" @@ "O" :> "o" @@ "P" :> "p" @@ "Q" :> "q" @@ "R" :> "r" @@
    "S" :> "s" @@ "T" :> "t" @@ "U" :> "u" @@ "V" :> "v" @@ "W" :> "w" @@ "X" :> "x" @@
    "Y" :> "y" @@ "Z" :> "z"

ToUpper ==
    "a" :> "A" @@ "b" :> "B" @@ "c" :> "C" @@ "d" :> "D" @@ "e" :> "E" @@ "f" :> "F" @@
    "g" :> "G" @@ "h" :> "H" @@ "i" :> "I" @@ "j" :> "J" @@ "k" :> "K" @@ "l" :> "L" @@
    "m" :> "M" @@ "n" :> "N" @@ "o" :> "O" @@ "p" :> "P" @@ "q" :> "Q" @@ "r" :> "R" @@
    "s" :> "S" @@ "t" :> "T" @@ "u" :> "U" @@ "v" :> "V" @@ "w" :> "W" @@ "x" :> "X" @@
    "y" :> "Y" @@ "z" :> "Z"

\* str.lower() on one character (every other character is kept)
LowerChar(c) == IF c \in DOMAIN ToLower THEN ToLower[c] ELSE c

\* str.upper() on one character
UpperChar(c) == IF c \in DOMAIN ToUpper THEN ToUpper[c] ELSE c

IsLetter(c) == LowerChar(c) # c \/ UpperChar(c) # c

CharAt(s, i) == SubSeq(s, i, i)

\* s.lower()
RECURSIVE Lower(_)
Lower(s) == IF s = "" THEN "" ELSE LowerChar(Head(s)) \o Lower(Tail(s))

\* s.title(): a letter that follows a non-letter is upper-cased, every other letter lower-cased
RECURSIVE TitleFrom(_, _)
TitleFrom(s, prevLetter) ==
    IF s = "" THEN ""
    ELSE LET c == Head(s)
         IN  (IF prevLetter THEN LowerChar(c) ELSE UpperChar(c))
                 \o TitleFrom(Tail(s), IsLetter(c))

Title(s) == TitleFrom(s, FALSE)

\* sub in s
Contains(sub, s) ==
    \E i \in 1..(Len(s) - Len(sub) + 1) : SubSeq(s, i, i + Len(sub) - 1) = sub

\* the characters str.strip() removes
IsSpace(c) == c \in {" ", "\t", "\n", "\r", "\f"}

RECURSIVE LStrip(_)
LStrip(s) == IF s # "" /\ IsSpace(Head(s)) THEN LStrip(Tail(s)) ELSE s

RECURSIVE RStrip(_)
RStrip(s) ==
    IF s # "" /\ IsSpace(CharAt(s, Len(s))) THEN RStrip(SubSeq(s, 1, Len(s) - 1)) ELSE s

\* s.strip()
Strip(s) == RStrip(LStrip(s))

\* s[:n]
Prefix(s, n) == SubSeq(s, 1, Min(Len(s), n))

Digit(d) ==
    CASE d = 0 -> "0" [] d = 1 -> "1" [] d = 2 -> "2" [] d = 3 -> "3" [] d = 4 -> "4"
      [] d = 5 -> "5" [] d = 6 -> "6" [] d = 7 -> "7" [] d = 8 -> "8" [] d = 9 -> "9"

\* str(n) of a non-negative int, as an f-string renders it
RECURSIVE IntToStr(_)
IntToStr(n) == IF n < 10 THEN Digit(n) ELSE IntToStr(n \div 10) \o Digit(n % 10)

RECURSIVE Repeat(_, _)
Repeat(s, n) == IF n = 0 THEN "" ELSE s \o Repeat(s, n - 1)

-----------------------------------------------------------------------------
(* Configuration: src/app.py lines 8-41 *)

\* os.getenv(name): None when the variable is unset, else its value
EnvUnset == [set |-> FALSE, value |-> ""]
EnvSet(v) == [set |-> TRUE, value |-> v]

\* truthiness of an Optional[str]
Truthy(opt) == opt.set /\ opt.value # ""

HF_TOKEN == HF_API_KEY

DefaultModelRepo == "HuggingFaceH4/zephyr-7b-beta:featherless-ai"

MODEL_REPO == IF Truthy(HF_MODEL_REPO) THEN HF_MODEL_REPO.value ELSE DefaultModelRepo

API_URL == "https://router.huggingface.co/v1/chat/completions"

\* `not HF_TOKEN` of line 12
TokenMissing_NoCheck(tok) == FALSE
TokenMissing(tok) == ~Truthy(tok)

HEADERS == [Authorization |-> "Bearer " \o HF_TOKEN.value]

\* the file on disk: absent, or a JSON object product -> region -> base URL,
\* kept in the order of the file as a sequence of entries
NoFile == [exists |-> FALSE, content |-> <<>>]
File(c) == [exists |-> TRUE, content |-> c]

\* lines 19-23: a missing file gives the empty catalog
LoadAffiliateLinks(f) == IF f.exists THEN f.content ELSE <<>>

AFFILIATE_LINKS == LoadAffiliateLinks(affiliate_file)

SUBS == <<
    [k |-> "wheat flour", v |-> "gluten-free all-purpose flour or rice flour"],
    [k |-> "flour",       v |-> "gluten-free all-purpose flour"],
    [k |-> "breadcrumbs", v |-> "gluten-free breadcrumbs or crushed cornflakes"],
    [k |-> "soy sauce",   v |-> "tamari (gluten-free) or coconut aminos"],
    [k |-> "pasta",       v |-> "gluten-free pasta (rice/corn/quinoa)"],
    [k |-> "noodles",     v |-> "rice noodles or glass noodles"],
    [k |-> "tortilla",    v |-> "corn tortilla (check GF certified)"],
    [k |-> "barley",      v |-> "brown rice or quinoa"],
    [k |-> "rye",         v |-> "buckwheat groats (naturally GF)"],
    [k |-> "couscous",    v |-> "quinoa or millet"],
    [k |-> "bulgur",      v |-> "quinoa or cauliflower rice"],
    [k |-> "semolina",    v |-> "rice flour or cornmeal"],
    [k |-> "malt",        v |-> "omit or use maple syrup (for flavoring)"],
    [k |-> "beer",        v |-> "gluten-free beer or stock"] >>

-----------------------------------------------------------------------------
(* Helper functions: src/app.py lines 44-102 *)

NoneLink == [some |-> FALSE, url |-> ""]
SomeLink(u) == [some |-> TRUE, url |-> u]

\* product in AFFILIATE_LINKS
InCatalog(product) == \E i \in 1..Len(AFFILIATE_LINKS) : AFFILIATE_LINKS[i].product = product

\* AFFILIATE_LINKS[product]
CatalogLinks(product) ==
    AFFILIATE_LINKS[CHOOSE i \in 1..Len(AFFILIATE_LINKS) :
                        AFFILIATE_LINKS[i].product = product].links

\* st.secrets.get(key, default)
SecretsGet(key, default) == IF key \in DOMAIN secrets THEN secrets[key] ELSE default

\* line 59: f"{base_url}?tag={tag}" if tag else base_url
TaggedUrl(base_url, tag) == IF tag # "" THEN base_url \o "?tag=" \o tag ELSE base_url

get_affiliate_link_AnyRegion(name, rgn) ==
    LET product == Lower(name)
    IN  IF InCatalog(product)
        THEN LET links == CatalogLinks(product)
                 r == IF rgn \in DOMAIN links THEN rgn ELSE CHOOSE x \in DOMAIN links : TRUE
             IN  SomeLink(TaggedUrl(links[r], SecretsGet("affiliate_tag_" \o r, "")))
        ELSE NoneLink

get_affiliate_link(name, rgn) ==
    LET product == Lower(name)
    IN  IF InCatalog(product) /\ rgn \in DOMAIN CatalogLinks(product)
        THEN LET base_url == CatalogLinks(product)[rgn]
                 tag == SecretsGet("affiliate_tag_" \o rgn, "")
             IN  SomeLink(TaggedUrl(base_url, tag))
        ELSE NoneLink

\* the loop of lines 76-83 over SUBS[i..], in the dictionary's order
RECURSIVE FlagsFrom(_, _, _)
FlagsFrom(text, rgn, i) ==
    IF i > Len(SUBS) THEN <<>>
    ELSE (IF Contains(SUBS[i].k, text)
          THEN << [ingredient |-> SUBS[i].k,
                   substitute |-> SUBS[i].v,
                   link       |-> get_affiliate_link(SUBS[i].v, rgn)] >>
          ELSE <<>>) \o FlagsFrom(text, rgn, i + 1)

possible_gluten_flags_with_links_CaseSensitive(ingredients_text, rgn) ==
    FlagsFrom(ingredients_text, rgn, 1)

possible_gluten_flags_with_links(ingredients_text, rgn) ==
    LET text == Lower(ingredients_text)
    IN  FlagsFrom(text, rgn, 1)

\* the loop of lines 99-101 over AFFILIATE_LINKS[i..], in the file's order
RECURSIVE RecsFrom(_, _, _)
RecsFrom(text, rgn, i) ==
    IF i > Len(AFFILIATE_LINKS) THEN <<>>
    ELSE LET product == AFFILIATE_LINKS[i].product
             links == AFFILIATE_LINKS[i].links
         IN  (IF Contains(product, text) /\ rgn \in DOMAIN links
              THEN << [product |-> product, link |-> get_affiliate_link(product, rgn)] >>
              ELSE <<>>) \o RecsFrom(text, rgn, i + 1)

get_affiliate_recommendations(ingredients_text, rgn) ==
    RecsFrom(Lower(ingredients_text), rgn, 1)

-----------------------------------------------------------------------------
(* build_prompt: src/app.py lines 125-166 *)

PromptHead ==
    "\nYou are a culinary assistant specialized in gluten-free cooking. "
    \o "Ensure every recipe is 100% gluten-free. \n"
    \o "If any provided ingredient contains gluten, automatically swap it for safe "
    \o "alternatives and mention the swap.\n\nUser ingredients: "

AvoidLabel == "\nAllergens/diet to avoid (besides gluten): "

ServingsLabel == "\nServings: "

TaskLabel == "\n\nTASK: Create "

PromptTail ==
    " distinct gluten-free recipe OPTIONS that primarily use the user's ingredients.\n"
    \o "Each option must follow EXACTLY this Markdown format:\n\n"
    \o "# Recipe Title\nServings: <number>\nPrep: <minutes> | Cook: <minutes>\n\n"
    \o "## Ingredients\n- <bullet list of GF ingredients only>\n\n"
    \o "## Method\n1. <step>\n2. <step>\n3. <step>\n\n"
    \o "## Substitutions & Notes\n- <list any swaps or GF cautions>\n"
    \o "- <tips for variations or storage>\n\n"
    \o "Keep it concise but practical. Avoid brand names. Always ensure substitutes "
    \o "are safe for celiac/gluten intolerance.\n"

\* line 143: {avoid if avoid.strip() else "None specified"}
AvoidText_NoStrip(avoid_text) == IF avoid_text # "" THEN avoid_text ELSE "None specified"
AvoidText(avoid_text) == IF Strip(avoid_text) # "" THEN avoid_text ELSE "None specified"

build_prompt(ingredients_text, avoid_text, n_servings, n_recipes) ==
    PromptHead \o ingredients_text
        \o AvoidLabel \o AvoidText(avoid_text)
        \o ServingsLabel \o IntToStr(n_servings)
        \o TaskLabel \o IntToStr(n_recipes)
        \o PromptTail

-----------------------------------------------------------------------------
(* The endpoint's answers and resp.json(): JSON values as tagged records *)

JNull == [t |-> "null", v |-> ""]
JStr(s) == [t |-> "str", v |-> s]
JList(q) == [t |-> "list", v |-> q]
JDict(f) == [t |-> "dict", v |-> f]

Ok(val) == [ok |-> TRUE, val |-> val, exc |-> "", msg |-> ""]
Raised(exc, msg) == [ok |-> FALSE, val |-> JNull, exc |-> exc, msg |-> msg]

NotSubscriptable == Raised("TypeError", "'NoneType' object is not subscriptable")

\* obj[key] for a str key (messages as CPython 3.11 words them)
GetKey(obj, key) ==
    CASE obj.t = "dict" -> IF key \in DOMAIN obj.v THEN Ok(obj.v[key])
                           ELSE Raised("KeyError", "'" \o key \o "'")
      [] obj.t = "list" -> Raised("TypeError",
                                  "list indices must be integers or slices, not str")
      [] obj.t = "str"  -> Raised("TypeError", "string indices must be integers, not 'str'")
      [] OTHER          -> NotSubscriptable

\* obj[0]
GetFirst(obj) ==
    CASE obj.t = "dict" -> Raised("KeyError", "0")
      [] obj.t = "list" -> IF Len(obj.v) > 0 THEN Ok(obj.v[1])
                           ELSE Raised("IndexError", "list index out of range")
      [] obj.t = "str"  -> IF Len(obj.v) > 0 THEN Ok(JStr(CharAt(obj.v, 1)))
                           ELSE Raised("IndexError", "string index out of range")
      [] OTHER          -> NotSubscriptable

\* what one attempt meets: a response (status, body text, and what resp.json()
\* makes of the body), or no response within the timeout of 60 s
Response(status, text, json_ok, json) ==
    [kind |-> "response", status_code |-> status, text |-> text,
     json_ok |-> json_ok, json |-> json]

\* a body that is JSON, with its parsed value
JsonResponse(status, text, json) == Response(status, text, TRUE, json)

\* a body that is not JSON: resp.json() raises
TextResponse(status, text) == Response(status, text, FALSE, JNull)

TimedOut == [kind |-> "timeout", status_code |-> 0, text |-> "",
             json_ok |-> FALSE, json |-> JNull]

\* resp.json()
RespJson(resp) ==
    IF resp.json_ok THEN Ok(resp.json)
    ELSE Raised("JSONDecodeError", "Expecting value: line 1 column 1 (char 0)")

-----------------------------------------------------------------------------
(* hf_generate_chat: src/app.py lines 104-123 *)

\* the excerpt length of line 121
ExcerptLen == 500

Returned(reqs, value) ==
    [kind |-> "return", requests |-> reqs, value |-> value, exc |-> "", msg |-> ""]
Raise(reqs, exc, msg) ==
    [kind |-> "raise", requests |-> reqs, value |-> JNull, exc |-> exc, msg |-> msg]
NotCalled ==
    [kind |-> "none", requests |-> <<>>, value |-> JNull, exc |-> "", msg |-> ""]

\* line 121
ApiError_NoCut(resp) ==
    "HF API error " \o IntToStr(resp.status_code) \o ": " \o resp.text
ApiError(resp) ==
    "HF API error " \o IntToStr(resp.status_code) \o ": " \o Prefix(resp.text, ExcerptLen)

\* line 123: data["choices"][0]["message"]["content"], left to right
ExtractContent_Stripped(data) ==
    LET choices == GetKey(data, "choices")
        first   == IF choices.ok THEN GetFirst(choices.val) ELSE choices
        message == IF first.ok THEN GetKey(first.val, "message") ELSE first
        content == IF message.ok THEN GetKey(message.val, "content") ELSE message
    IN  IF content.ok /\ content.val.t = "str" THEN Ok(JStr(Strip(content.val.v)))
        ELSE content
ExtractContent_Lenient(data) ==
    LET choices == GetKey(data, "choices")
        first   == IF choices.ok THEN GetFirst(choices.val) ELSE choices
        message == IF first.ok THEN GetKey(first.val, "message") ELSE first
        content == IF message.ok THEN GetKey(message.val, "content") ELSE message
    IN  IF content.ok THEN content ELSE Ok(JStr("?"))
ExtractContent(data) ==
    LET choices == GetKey(data, "choices")
        first   == IF choices.ok THEN GetFirst(choices.val) ELSE choices
        message == IF first.ok THEN GetKey(first.val, "message") ELSE first
    IN  IF message.ok THEN GetKey(message.val, "content") ELSE message

\* lines 117-119: the one request of a call
ChatRequest(prompt_text) ==
    [url           |-> API_URL,
     authorization |-> HEADERS.Authorization,
     model         |-> MODEL_REPO,
     messages      |-> << [role |-> "user", content |-> prompt_text] >>]

\* script: what the endpoint answers to the call's first, second, ... attempt.
\* The function posts once and reads the first answer only.
hf_generate_chat_RetryOnce(prompt_text, script) ==
    LET req  == ChatRequest(prompt_text)
        resp == script[1]
        again == Len(script) > 1 /\ resp.kind = "response" /\ resp.status_code # 200
        last == IF again THEN script[2] ELSE resp
        reqs == IF again THEN <<req, req>> ELSE <<req>>
    IN  IF last.kind = "timeout"
        THEN Raise(reqs, "Timeout", "Read timed out. (read timeout=60)")
        ELSE IF last.status_code # 200
        THEN Raise(reqs, "RuntimeError", ApiError(last))
        ELSE LET data == RespJson(last)
                 out  == IF data.ok THEN ExtractContent(data.val) ELSE data
             IN  IF out.ok THEN Returned(reqs, out.val)
                 ELSE Raise(reqs, out.exc, out.msg)

hf_generate_chat(prompt_text, script) ==
    LET req  == ChatRequest(prompt_text)
        resp == script[1]
    IN  IF resp.kind = "timeout"
        THEN Raise(<<req>>, "Timeout", "Read timed out. (read timeout=60)")
        ELSE IF resp.status_code # 200
        THEN Raise(<<req>>, "RuntimeError", ApiError(resp))
        ELSE LET data == RespJson(resp)
                 out  == IF data.ok THEN ExtractContent(data.val) ELSE data
             IN  IF out.ok THEN Returned(<<req>>, out.val)
                 ELSE Raise(<<req>>, out.exc, out.msg)

-----------------------------------------------------------------------------
(* The page: src/app.py lines 12-14 and 169-218 *)

\* one element put on the page: the st.<kind> call and its argument
El(kind, text) == [kind |-> kind, body |-> JStr(text)]

MinRecipes == 1
MaxRecipes == 3
DefaultRecipes == 2
MinServings == 1
MaxServings == 8
DefaultServings == 2
Regions == <<"uk", "es">>

MissingKeyError ==
    El("error", "Missing Hugging Face API key. Set HF_TOKEN as an environment variable.")

\* lines 170-171
PageHead ==
    << El("title", "\\U0001F372 SinGlu - Gluten-Free Recipe Generator"),
       El("write", "Enter your ingredients and get **gluten-free** recipes with "
                   \o "substitutions and recommended products.") >>

\* line 218
PageFoot ==
    << El("caption", "\\u26A0\\uFE0F Set your Hugging Face API key as an environment "
                     \o "variable: HF_TOKEN=...") >>

\* lines 195-198
FlagLine(f) ==
    El("markdown",
       "- **" \o f.ingredient \o "** \\u2192 " \o f.substitute
           \o (IF f.link.some THEN " ([try here](" \o f.link.url \o "))" ELSE ""))

\* lines 192-198
FlagsShown(fl) ==
    IF fl = <<>> THEN <<>>
    ELSE << El("info", "Heads up! We detected potential gluten-containing items "
                       \o "and suggested swaps:") >>
         \o [i \in 1..Len(fl) |-> FlagLine(fl[i])]

\* line 216: a link of None is formatted as the text None
RecLine(r) ==
    El("markdown", "- [" \o Title(r.product) \o "]("
                       \o (IF r.link.some THEN r.link.url ELSE "None") \o ")")

\* lines 213-216
RecsShown(rc) ==
    IF rc = <<>> THEN <<>>
    ELSE << El("subheader", "\\U0001F6D2 Recommended Gluten-Free Products") >>
         \o [i \in 1..Len(rc) |-> RecLine(rc[i])]

\* lines 203-209: try / except Exception / else
GenerationShown(c) ==
    IF c.kind = "raise" THEN << El("error", "Generation error: " \o c.msg) >>
    ELSE << [kind |-> "markdown", body |-> c.value],
            El("caption", "Model: " \o MODEL_REPO) >>

\* the classes `except Exception` of line 205 catches, among those raised here:
\* RuntimeError, the lookup errors, TypeError, and the errors of requests
\* (IOError and ValueError subclasses)
ExceptionClasses ==
    {"RuntimeError", "KeyError", "IndexError", "TypeError", "Timeout", "JSONDecodeError"}

\* whether a failure of the call leaves the handler
HandlerEscapes_OnlyRuntimeError(c) == c.kind = "raise" /\ c.exc # "RuntimeError"
HandlerEscapes(c) == c.kind = "raise" /\ c.exc \notin ExceptionClasses

NoResults ==
    /\ flags' = <<>>
    /\ prompt' = ""
    /\ call' = NotCalled
    /\ recs' = <<>>
    /\ requests_sent' = <<>>

\* lines 12-14: st.error and st.stop
Stopped ==
    /\ pc' = "stopped"
    /\ shown' = << MissingKeyError >>
    /\ NoResults

\* a run in which the button was not pressed
RunWithoutClick ==
    IF TokenMissing(HF_TOKEN) THEN Stopped
    ELSE /\ pc' = "rendered"
         /\ shown' = PageHead \o PageFoot
         /\ NoResults

\* a run in which the button was pressed: lines 185-218, with the widgets' values
RunWithClick(script) ==
    IF TokenMissing(HF_TOKEN) THEN Stopped
    ELSE IF Strip(ingredients) = ""
    THEN /\ pc' = "warned"
         /\ shown' = PageHead \o << El("warning", "Please enter some ingredients first.") >>
         /\ NoResults
    ELSE /\ flags' = possible_gluten_flags_with_links(ingredients, region)
         /\ prompt' = build_prompt(ingredients, avoid, servings, recipes_count)
         /\ call' = hf_generate_chat(prompt', script)
         /\ requests_sent' = call'.requests
         /\ IF HandlerEscapes(call')
            THEN /\ pc' = "crashed"
                 /\ recs' = <<>>
                 /\ shown' = PageHead \o FlagsShown(flags')
            ELSE /\ pc' = "done"
                 /\ recs' = get_affiliate_recommendations(ingredients, region)
                 /\ shown' = PageHead \o FlagsShown(flags') \o GenerationShown(call')
                                 \o RecsShown(recs') \o PageFoot

-----------------------------------------------------------------------------
(* The environment and the inputs the model draws from *)

TokenChoices == << EnvUnset, EnvSet(""), EnvSet("hf_abc123") >>

ModelChoices == << EnvUnset, EnvSet("org/custom-model") >>

Catalog ==
    << [product |-> "gluten-free all-purpose flour",
        links   |-> ("uk" :> "https://shop.example/uk/gf-flour"
                     @@ "es" :> "https://shop.example/es/harina")],
       [product |-> "rice",
        links   |-> ("uk" :> "https://shop.example/uk/rice")],
       [product |-> "corn tortilla (check gf certified)",
        links   |-> ("es" :> "https://shop.example/es/tortilla")],
       [product |-> "Quinoa",
        links   |-> ("uk" :> "https://shop.example/uk/quinoa")] >>

FileChoices == << NoFile, File(Catalog), File(<<>>) >>

SecretsChoices ==
    << <<>>,
       ("affiliate_tag_uk" :> "singlu-21"),
       ("affiliate_tag_uk" :> "" @@ "affiliate_tag_es" :> "singlu-es") >>

\* the deployments of the script: indices into the four choices above
Environments ==
    << <<1, 1, 1, 1>>, <<2, 2, 2, 2>>, <<3, 1, 1, 1>>, <<3, 2, 2, 2>>, <<3, 1, 2, 3>> >>

IngredientChoices == << "", " \n", "rice, tomatoes", "Wheat Flour, SOY sauce, Rice" >>

AvoidChoices == << "", "dairy, nuts" >>

ChatContent == " # Rice Bowl\nServings: 2\n"

OkChat ==
    JsonResponse(200, "{\"choices\": [{\"message\": {\"role\": \"assistant\", \"content\": "
                      \o "\" # Rice Bowl\\nServings: 2\\n\"}}]}",
        JDict("choices" :> JList(<< JDict("message" :>
            JDict("role" :> JStr("assistant") @@ "content" :> JStr(ChatContent))) >>)))

OkChatTwoChoices ==
    JsonResponse(200, "{\"id\": \"c1\", \"choices\": [{\"message\": {\"content\": \"A\"}}, "
                      \o "{\"message\": {\"content\": \"B\"}}]}",
        JDict("id" :> JStr("c1") @@ "choices" :> JList(<<
            JDict("message" :> JDict("content" :> JStr("A"))),
            JDict("message" :> JDict("content" :> JStr("B"))) >>)))

OkLegacy ==
    JsonResponse(200, "[{\"generated_text\": \"Rice Bowl\"}]",
        JList(<< JDict("generated_text" :> JStr("Rice Bowl")) >>))

OkErrorObject ==
    JsonResponse(200, "{\"error\": \"bad\"}", JDict("error" :> JStr("bad")))

OkNoChoices ==
    JsonResponse(200, "{\"choices\": []}", JDict("choices" :> JList(<<>>)))

OkNoContent ==
    JsonResponse(200, "{\"choices\": [{\"message\": {\"role\": \"assistant\"}}]}",
        JDict("choices" :> JList(<< JDict("message" :>
            JDict("role" :> JStr("assistant"))) >>)))

OkNoMessage ==
    JsonResponse(200, "{\"choices\": [{\"text\": \"Rice Bowl\"}]}",
        JDict("choices" :> JList(<< JDict("text" :> JStr("Rice Bowl")) >>)))

OkMessageString ==
    JsonResponse(200, "{\"choices\": [{\"message\": \"Rice Bowl\"}]}",
        JDict("choices" :> JList(<< JDict("message" :> JStr("Rice Bowl")) >>)))

OkString == JsonResponse(200, "\"Rice Bowl\"", JStr("Rice Bowl"))

OkNull == JsonResponse(200, "null", JNull)

OkHtml == TextResponse(200, "<html>gateway</html>")

Created == JsonResponse(201, "{\"choices\": []}", JDict("choices" :> JList(<<>>)))

Loading ==
    JsonResponse(503, "{\"error\": \"Model is loading\", \"estimated_time\": 2}",
        JDict("error" :> JStr("Model is loading") @@ "estimated_time" :> JStr("2")))

RateLimited == TextResponse(429, "Too Many Requests")

RequestTimeout == TextResponse(408, "Request Timeout")

Unauthorized == JsonResponse(401, "{\"error\": \"Invalid token\"}",
                             JDict("error" :> JStr("Invalid token")))

ServerErrorLong == TextResponse(500, Repeat("0123456789", 50) \o "overflow")

ServerErrorExact == TextResponse(502, Repeat("abcde", 100))

NotFoundEmpty == TextResponse(404, "")

Outcomes ==
    << OkChat, OkChatTwoChoices, OkLegacy, OkErrorObject, OkNoChoices, OkNoContent,
       OkNoMessage, OkMessageString, OkString, OkNull, OkHtml, Created, Loading,
       RateLimited, RequestTimeout, Unauthorized, ServerErrorLong, ServerErrorExact,
       NotFoundEmpty, TimedOut >>

\* the endpoint's behaviours: every outcome alone, and some runs of outcomes
Scripts ==
    [i \in 1..Len(Outcomes) |-> << Outcomes[i] >>]
    \o << << Loading, OkChat >>,
          << RequestTimeout, OkChat >>,
          << TimedOut, OkChat >>,
          << Unauthorized, OkChat >>,
          [j \in 1..6 |-> RateLimited],
          [j \in 1..6 |-> Loading],
          [j \in 1..5 |-> RateLimited] \o << OkChat >> >>

-----------------------------------------------------------------------------
(* Spec: the script, run after run *)

Init ==
    /\ \E i \in 1..Len(Environments) :
          /\ HF_API_KEY = TokenChoices[Environments[i][1]]
          /\ HF_MODEL_REPO = ModelChoices[Environments[i][2]]
          /\ affiliate_file = FileChoices[Environments[i][3]]
          /\ secrets = SecretsChoices[Environments[i][4]]
    /\ pc = "start"
    /\ ingredients = ""
    /\ avoid = ""
    /\ servings = DefaultServings
    /\ recipes_count = DefaultRecipes
    /\ region = Regions[1]
    /\ endpoint = <<>>
    /\ requests_sent = <<>>
    /\ flags = <<>>
    /\ prompt = ""
    /\ call = NotCalled
    /\ recs = <<>>
    /\ shown = <<>>
    /\ product_name = ""
    /\ link = NoneLink

Env == <<HF_API_KEY, HF_MODEL_REPO, affiliate_file, secrets>>
Direct == <<product_name, link>>

\* the widgets exist once a run got past line 14
WidgetsOnPage == pc \in {"rendered", "warned", "done"}

\* the first run of a session
PageLoad ==
    /\ pc = "start"
    /\ RunWithoutClick
    /\ UNCHANGED <<Env, Direct, ingredients, avoid, servings, recipes_count, region,
                   endpoint>>

SetIngredients(t) ==
    /\ WidgetsOnPage
    /\ t # ingredients
    /\ ingredients' = t
    /\ endpoint' = <<>>
    /\ RunWithoutClick
    /\ UNCHANGED <<Env, Direct, avoid, servings, recipes_count, region>>

SetAvoid(t) ==
    /\ WidgetsOnPage
    /\ t # avoid
    /\ avoid' = t
    /\ endpoint' = <<>>
    /\ RunWithoutClick
    /\ UNCHANGED <<Env, Direct, ingredients, servings, recipes_count, region>>

SetServings(n) ==
    /\ WidgetsOnPage
    /\ n # servings
    /\ servings' = n
    /\ endpoint' = <<>>
    /\ RunWithoutClick
    /\ UNCHANGED <<Env, Direct, ingredients, avoid, recipes_count, region>>

SetRecipesCount(n) ==
    /\ WidgetsOnPage
    /\ n # recipes_count
    /\ recipes_count' = n
    /\ endpoint' = <<>>
    /\ RunWithoutClick
    /\ UNCHANGED <<Env, Direct, ingredients, avoid, servings, region>>

SetRegion(r) ==
    /\ WidgetsOnPage
    /\ r # region
    /\ region' = r
    /\ endpoint' = <<>>
    /\ RunWithoutClick
    /\ UNCHANGED <<Env, Direct, ingredients, avoid, servings, recipes_count>>

\* the button, with what the endpoint will answer during this run
ClickGenerate(script) ==
    /\ WidgetsOnPage
    /\ endpoint' = script
    /\ RunWithClick(script)
    /\ UNCHANGED <<Env, Direct, ingredients, avoid, servings, recipes_count, region>>

\* the page is reloaded in the browser: a new session
Reload ==
    /\ pc # "start"
    /\ ingredients' = ""
    /\ avoid' = ""
    /\ servings' = DefaultServings
    /\ recipes_count' = DefaultRecipes
    /\ region' = Regions[1]
    /\ endpoint' = <<>>
    /\ RunWithoutClick
    /\ UNCHANGED <<Env, Direct>>

Next ==
    \/ PageLoad
    \/ \E i \in 1..Len(IngredientChoices) : SetIngredients(IngredientChoices[i])
    \/ \E i \in 1..Len(AvoidChoices) : SetAvoid(AvoidChoices[i])
    \/ \E n \in {DefaultServings, MaxServings} : SetServings(n)
    \/ \E n \in MinRecipes..MaxRecipes : SetRecipesCount(n)
    \/ \E i \in 1..Len(Regions) : SetRegion(Regions[i])
    \/ \E i \in 1..Len(Scripts) : ClickGenerate(Scripts[i])
    \/ Reload

Spec == Init /\ [][Next]_vars

-----------------------------------------------------------------------------
(* SpecFlagger, SpecLink, SpecPrompt: the pure functions applied to drawn arguments *)

MaxFrags == 2
MaxAvoidLen == 3

Fragments ==
    << "Wheat ", "flour", "FLOUR", "Breadcrumbs", "soy", " Sauce", "pasta", "NOODLES",
       "Tortilla", "barley", "r", "YE", "couscous", "Bulgur", "semolina", "MALT",
       "be", "er", ", ", " \n", "rice" >>

\* the texts made of at most n fragments
RECURSIVE TextsOf(_)
TextsOf(n) ==
    IF n = 0 THEN {""}
    ELSE LET shorter == TextsOf(n - 1)
         IN  shorter \cup {t \o Fragments[i] : t \in shorter, i \in 1..Len(Fragments)}

AvoidAlphabet == << " ", "\n", "\t", "d" >>

\* the texts of at most n characters of AvoidAlphabet
RECURSIVE AvoidTextsOf(_)
AvoidTextsOf(n) ==
    IF n = 0 THEN {""}
    ELSE LET shorter == AvoidTextsOf(n - 1)
         IN  shorter \cup {t \o AvoidAlphabet[i] : t \in shorter, i \in 1..Len(AvoidAlphabet)}

ProductChoices ==
    << "rice", "Rice", "RICE ", "Gluten-Free All-Purpose Flour", "quinoa", "Quinoa",
       "corn tortilla (check GF certified)", "oats", "" >>

LinkRegions == << "uk", "es", "fr" >>

\* the variables a pure function's application does not touch
Unused ==
    /\ HF_API_KEY = TokenChoices[3]
    /\ endpoint = <<>>
    /\ requests_sent = <<>>
    /\ call = NotCalled
    /\ shown = <<>>

InitFlagger ==
    /\ Unused
    /\ HF_MODEL_REPO = EnvUnset
    /\ \E i \in 1..2 : affiliate_file = FileChoices[i]
    /\ secrets = SecretsChoices[2]
    /\ pc = "args"
    /\ ingredients \in TextsOf(MaxFrags)
    /\ \E i \in 1..Len(Regions) : region = Regions[i]
    /\ avoid = ""
    /\ servings = DefaultServings
    /\ recipes_count = DefaultRecipes
    /\ flags = <<>>
    /\ prompt = ""
    /\ recs = <<>>
    /\ product_name = ""
    /\ link = NoneLink

ApplyFlagger ==
    /\ pc = "args"
    /\ pc' = "flagged"
    /\ flags' = possible_gluten_flags_with_links(ingredients, region)
    /\ UNCHANGED <<Env, Direct, ingredients, avoid, servings, recipes_count, region,
                   endpoint, requests_sent, prompt, call, recs, shown>>

ApplyRecommendations ==
    /\ pc = "args"
    /\ pc' = "recommended"
    /\ recs' = get_affiliate_recommendations(ingredients, region)
    /\ UNCHANGED <<Env, Direct, ingredients, avoid, servings, recipes_count, region,
                   endpoint, requests_sent, prompt, call, flags, shown>>

NextFlagger == ApplyFlagger \/ ApplyRecommendations

SpecFlagger == InitFlagger /\ [][NextFlagger]_vars

InitLink ==
    /\ Unused
    /\ HF_MODEL_REPO = EnvUnset
    /\ \E i \in 1..Len(FileChoices) : affiliate_file = FileChoices[i]
    /\ \E i \in 1..Len(SecretsChoices) : secrets = SecretsChoices[i]
    /\ pc = "args"
    /\ \E i \in 1..Len(ProductChoices) : product_name = ProductChoices[i]
    /\ \E i \in 1..Len(LinkRegions) : region = LinkRegions[i]
    /\ ingredients = ""
    /\ avoid = ""
    /\ servings = DefaultServings
    /\ recipes_count = DefaultRecipes
    /\ flags = <<>>
    /\ prompt = ""
    /\ recs = <<>>
    /\ link = NoneLink

ApplyLink ==
    /\ pc = "args"
    /\ pc' = "looked up"
    /\ link' = get_affiliate_link(product_name, region)
    /\ UNCHANGED <<Env, product_name, ingredients, avoid, servings, recipes_count,
                   region, endpoint, requests_sent, prompt, call, flags, recs, shown>>

NextLink == ApplyLink

SpecLink == InitLink /\ [][NextLink]_vars

InitPrompt ==
    /\ Unused
    /\ \E i \in 1..Len(ModelChoices) : HF_MODEL_REPO = ModelChoices[i]
    /\ affiliate_file = NoFile
    /\ secrets = SecretsChoices[1]
    /\ pc = "args"
    /\ \E i \in 3..4 : ingredients = IngredientChoices[i]
    /\ avoid \in AvoidTextsOf(MaxAvoidLen) \cup {"dairy, nuts", " dairy ", "None specified"}
    /\ servings \in MinServings..MaxServings
    /\ recipes_count \in MinRecipes..MaxRecipes
    /\ \E i \in 1..Len(Regions) : region = Regions[i]
    /\ flags = <<>>
    /\ prompt = ""
    /\ recs = <<>>
    /\ product_name = ""
    /\ link = NoneLink

ApplyBuildPrompt ==
    /\ pc = "args"
    /\ pc' = "built"
    /\ prompt' = build_prompt(ingredients, avoid, servings, recipes_count)
    /\ UNCHANGED <<Env, Direct, ingredients, avoid, servings, recipes_count, region,
                   endpoint, requests_sent, call, flags, recs, shown>>

NextPrompt == ApplyBuildPrompt

SpecPrompt == InitPrompt /\ [][NextPrompt]_vars

-----------------------------------------------------------------------------
(* Properties *)

\* the status codes the endpoint answers with, attempt by attempt
Statuses == [i \in 1..Len(endpoint) |-> endpoint[i].status_code]

\* a run of the handler got as far as the generation call
Called == pc \in {"done", "crashed"} /\ endpoint # <<>>

FirstStatus(code) ==
    Called /\ endpoint[1].kind = "response" /\ endpoint[1].status_code = code

SameJson(a, b) == a.t = b.t /\ a.v = b.v

\* the chat-completion envelope: choices[0].message.content is there
MatchesChat(data) ==
    /\ data.t = "dict" /\ "choices" \in DOMAIN data.v
    /\ data.v["choices"].t = "list" /\ Len(data.v["choices"].v) > 0
    /\ LET first == data.v["choices"].v[1]
       IN  /\ first.t = "dict" /\ "message" \in DOMAIN first.v
           /\ first.v["message"].t = "dict"
           /\ "content" \in DOMAIN first.v["message"].v

\* the legacy text-generation envelope: [{"generated_text": ...}, ...]
MatchesLegacy(data) ==
    /\ data.t = "list" /\ Len(data.v) > 0
    /\ data.v[1].t = "dict" /\ "generated_text" \in DOMAIN data.v[1].v

UnknownShape ==
    /\ FirstStatus(200)
    /\ endpoint[1].json_ok
    /\ ~MatchesChat(endpoint[1].json)
    /\ ~MatchesLegacy(endpoint[1].json)

ErrorsShown == {i \in 1..Len(shown) : shown[i].kind = "error"}

(* C1, as stated: a 503 (model loading, estimated time 2) followed by a 200 ends
   in success after exactly 2 HTTP attempts, the success payload returned and no
   error surfaced for the 503. *)
C1_RetriesAfterLoading ==
    (Called /\ Len(endpoint) = 2 /\ Statuses = <<503, 200>>)
        => /\ Len(requests_sent) = 2
           /\ call.kind = "return"
           /\ SameJson(call.value, JStr(ChatContent))
           /\ ErrorsShown = {}

(* C1, amended: a 503 at the first attempt makes hf_generate_chat raise
   RuntimeError "HF API error 503: <body>" after exactly 1 HTTP attempt, whatever
   the endpoint would answer next; the handler shows it as one error. *)
C1_LoadingFailsAtOnce ==
    FirstStatus(503)
        => /\ Len(requests_sent) = 1
           /\ call.kind = "raise"
           /\ call.exc = "RuntimeError"
           /\ call.msg = "HF API error 503: " \o Prefix(endpoint[1].text, ExcerptLen)
           /\ Cardinality(ErrorsShown) = 1

C1_Witness ==
    /\ Called /\ Len(endpoint) = 2 /\ Statuses = <<503, 200>>
    /\ Len(requests_sent) = 1
    /\ call.kind = "raise"
    /\ \E i \in ErrorsShown :
          shown[i].body.v = "Generation error: HF API error 503: "
                              \o "{\"error\": \"Model is loading\", \"estimated_time\": 2}"

(* C2, as stated: 429 at every attempt makes the client retry up to the ceiling
   of six attempts and only then raise; six HTTP attempts, never a success. *)
C2_SixAttemptsOnRateLimit ==
    (Called /\ Len(endpoint) = 6 /\ \A i \in 1..6 : Statuses[i] = 429)
        => /\ Len(requests_sent) = 6
           /\ call.kind = "raise"

(* C2, amended: a 429 at the first attempt makes hf_generate_chat raise after
   exactly 1 HTTP attempt (no retry, no ceiling), and the call never returns a
   success value. *)
C2_RateLimitFailsAtOnce ==
    FirstStatus(429)
        => /\ Len(requests_sent) = 1
           /\ call.kind = "raise"
           /\ call.exc = "RuntimeError"
           /\ Contains("429", call.msg)
           /\ {i \in 1..Len(shown) : shown[i].kind = "caption"} = {Len(shown)}

C2_Witness ==
    /\ Called /\ Len(endpoint) = 6 /\ \A i \in 1..6 : Statuses[i] = 429
    /\ Len(requests_sent) = 1
    /\ call.kind = "raise"
    /\ call.msg = "HF API error 429: Too Many Requests"

(* C3: a status other than 200, 503, 429 and 408 fails on the first attempt:
   exactly one HTTP request, a failure raised, its message holding the status
   code and at most the first 500 characters of the body. *)
C3_ImmediateFailure ==
    (Called /\ endpoint[1].kind = "response"
            /\ endpoint[1].status_code \notin {200, 503, 429, 408})
        => /\ Len(requests_sent) = 1
           /\ call.kind = "raise"
           /\ LET head == "HF API error " \o IntToStr(endpoint[1].status_code) \o ": "
                  excerpt == SubSeq(call.msg, Len(head) + 1, Len(call.msg))
              IN  /\ SubSeq(call.msg, 1, Len(head)) = head
                  /\ Len(excerpt) <= 500
                  /\ excerpt = SubSeq(endpoint[1].text, 1, Len(excerpt))
                  /\ Len(excerpt) = 500 \/ excerpt = endpoint[1].text

C3_Witness ==
    /\ Called /\ Statuses = <<401, 200>>
    /\ Len(requests_sent) = 1
    /\ call.kind = "raise"
    /\ call.msg = "HF API error 401: {\"error\": \"Invalid token\"}"

(* C4, as stated: a 200 whose JSON body matches neither the chat-completion nor
   the legacy envelope does not fail; the raw payload, as text, is returned. *)
C4_FallsBackToRawPayload ==
    UnknownShape
        => /\ call.kind = "return"
           /\ SameJson(call.value, JStr(endpoint[1].text))

(* C4, amended: a 200 whose JSON body matches neither envelope makes
   hf_generate_chat raise KeyError, IndexError or TypeError from the lookup
   choices[0].message.content, after one request; nothing is returned. *)
C4_UnknownShapeRaises ==
    UnknownShape
        => /\ call.kind = "raise"
           /\ call.exc \in {"KeyError", "IndexError", "TypeError"}
           /\ Len(requests_sent) = 1

C4_Witness ==
    /\ UnknownShape
    /\ endpoint[1].text = "{\"choices\": []}"
    /\ call.kind = "raise"
    /\ call.exc = "IndexError"

(* C5: a 200 with a valid chat-completion envelope at the first attempt returns
   exactly the content of the first choice's message, after exactly one request. *)
C5_ReturnsContent ==
    (FirstStatus(200) /\ endpoint[1].json_ok /\ MatchesChat(endpoint[1].json))
        => /\ call.kind = "return"
           /\ SameJson(call.value,
                       endpoint[1].json.v["choices"].v[1].v["message"].v["content"])
           /\ Len(requests_sent) = 1

C5_Witness ==
    /\ FirstStatus(200) /\ endpoint[1].json_ok /\ MatchesChat(endpoint[1].json)
    /\ call.kind = "return"
    /\ call.value.v = " # Rice Bowl\nServings: 2\n"

(* C6: without a credential in the environment the program shows an error and
   halts: no HTTP request is issued, and no flagging, prompt building or
   generation step is reached. *)
C6_NoCredentialNoRequest ==
    ~HF_API_KEY.set
        => /\ requests_sent = <<>>
           /\ call.kind = "none"
           /\ prompt = ""
           /\ flags = <<>>
           /\ pc \in {"start", "stopped"}
           /\ pc = "stopped" => shown = << MissingKeyError >>

C6_Witness ==
    /\ ~HF_API_KEY.set
    /\ pc = "stopped"
    /\ Len(shown) = 1 /\ shown[1].kind = "error"

\* keyword k occurs in text at some position, letter case ignored
OccursIgnoringCase(k, text) ==
    \E at \in 0..(Len(text) - Len(k)) :
        \A q \in 1..Len(k) : LowerChar(CharAt(text, at + q)) = CharAt(k, q)

FlaggedKeywords == {flags[j].ingredient : j \in 1..Len(flags)}

(* C7: possible_gluten_flags_with_links returns one Flag Result for a dictionary
   keyword exactly when the keyword occurs in the text, case ignored: every
   contained keyword is flagged (overlapping ones too), once, with its substitute,
   and a text that holds no keyword gives the empty list. *)
C7_FlagsExactlyContainedKeywords ==
    pc = "flagged"
        => /\ \A i \in 1..Len(SUBS) :
                 (SUBS[i].k \in FlaggedKeywords)
                     <=> OccursIgnoringCase(SUBS[i].k, ingredients)
           /\ \A j \in 1..Len(flags) :
                 /\ \E i \in 1..Len(SUBS) :
                       SUBS[i].k = flags[j].ingredient /\ SUBS[i].v = flags[j].substitute
                 /\ \A j2 \in 1..Len(flags) :
                       flags[j2].ingredient = flags[j].ingredient => j2 = j
           /\ (\A i \in 1..Len(SUBS) : ~OccursIgnoringCase(SUBS[i].k, ingredients))
                 => flags = <<>>

C7_Witness ==
    /\ pc = "flagged"
    /\ ingredients = "Wheat FLOUR"
    /\ Len(flags) = 2
    /\ flags[1].ingredient = "wheat flour"
    /\ flags[2].ingredient = "flour"

\* the catalog's entries for the lower-cased product that have the region
LinkEntries ==
    {i \in 1..Len(AFFILIATE_LINKS) :
        /\ AFFILIATE_LINKS[i].product = Lower(product_name)
        /\ region \in DOMAIN AFFILIATE_LINKS[i].links}

TagKey == "affiliate_tag_" \o region

TagConfigured == TagKey \in DOMAIN secrets /\ secrets[TagKey] # ""

(* C8: get_affiliate_link returns a link exactly when the catalog has an entry
   for the (lower-cased product, region) pair, None otherwise; the link is the
   entry's base URL, with "?tag=<tag>" appended exactly when a non-empty tag is
   configured for the region. *)
C8_LinkOnlyForCatalogEntry ==
    pc = "looked up"
        => /\ link.some <=> LinkEntries # {}
           /\ link.some =>
                 \E i \in LinkEntries :
                    LET base_url == AFFILIATE_LINKS[i].links[region]
                    IN  link.url = IF TagConfigured
                                   THEN base_url \o "?tag=" \o secrets[TagKey]
                                   ELSE base_url
           /\ ~link.some => link = NoneLink

C8_Witness ==
    /\ pc = "looked up"
    /\ product_name = "Rice"
    /\ region = "uk"
    /\ link.some
    /\ link.url = "https://shop.example/uk/rice?tag=singlu-21"

C8_WitnessAbsent ==
    /\ pc = "looked up"
    /\ product_name = "Rice"
    /\ region = "es"
    /\ affiliate_file.exists /\ AFFILIATE_LINKS # <<>>
    /\ ~link.some

\* every character of s is white space
Blank(s) == \A i \in 1..Len(s) : IsSpace(CharAt(s, i))

(* C9: the prompt is the fixed template filled with the four arguments and
   nothing else (so equal arguments give equal prompts, whatever the rest of the
   state), and its avoidance field is "None specified" when avoid is empty or
   white space only, the given avoid text otherwise. *)
C9_PromptIsFunctionOfArguments ==
    pc = "built"
        => prompt = PromptHead \o ingredients
                      \o AvoidLabel \o (IF Blank(avoid) THEN "None specified" ELSE avoid)
                      \o ServingsLabel \o IntToStr(servings)
                      \o TaskLabel \o IntToStr(recipes_count)
                      \o PromptTail

C9_Witness ==
    /\ pc = "built"
    /\ avoid = " \n\t"
    /\ Contains("\nAllergens/diet to avoid (besides gluten): None specified\nServings: 8\n",
                prompt)

(* C10: with non-blank ingredients, every failure of the generation step (a
   non-200 status, a network timeout, a 200 whose body does not parse into the
   envelope) is caught and shown as a single error message; it never leaves the
   handler, the flags computed before the request stay shown, and the
   affiliate-recommendation step still runs afterwards. *)
C10_FailureShownOnce ==
    /\ pc # "crashed"
    /\ (Called /\ call.kind = "raise")
          => /\ pc = "done"
             /\ Cardinality(ErrorsShown) = 1
             /\ LET e == CHOOSE i \in ErrorsShown : TRUE
                    nflags == IF flags = <<>> THEN 0 ELSE Len(flags) + 1
                    nrecs == IF recs = <<>> THEN 0 ELSE Len(recs) + 1
                IN  /\ shown[e].body.v = "Generation error: " \o call.msg
                    /\ e = Len(PageHead) + nflags + 1
                    /\ Len(shown) = e + nrecs + Len(PageFoot)
                    /\ \A j \in 1..Len(flags) :
                          /\ shown[Len(PageHead) + 1 + j].kind = "markdown"
                          /\ Contains("**" \o flags[j].ingredient \o "**",
                                      shown[Len(PageHead) + 1 + j].body.v)
                    /\ \A j \in 1..Len(recs) :
                          Contains("[" \o Title(recs[j].product) \o "]",
                                   shown[e + 1 + j].body.v)
             /\ \A i \in 1..Len(AFFILIATE_LINKS) :
                   (/\ Contains(AFFILIATE_LINKS[i].product, Lower(ingredients))
                    /\ region \in DOMAIN AFFILIATE_LINKS[i].links)
                       => \E j \in 1..Len(recs) : recs[j].product = AFFILIATE_LINKS[i].product

C10_Witness ==
    /\ Called
    /\ call.kind = "raise"
    /\ call.exc = "Timeout"
    /\ pc = "done"
    /\ Len(flags) = 3
    /\ Len(recs) = 1
    /\ shown[Len(shown) - 1].body.v = "- [Rice](https://shop.example/uk/rice?tag=singlu-21)"

=============================================================================
